---- MODULE Spec2Model ----
(***************************************************************************)
(* The sensor-data hook useSensorData (the "sync orchestrator"): its React *)
(* state, the ref of its auto-sync timer, the asynchronous operations it   *)
(* starts (fetchData, syncThingSpeak, the setInterval callback of          *)
(* setupAutoSync) and the effect React runs after a render.                *)
(*                                                                         *)
(* Atomicity follows JavaScript's run-to-completion rule: one action is    *)
(* the code that runs between two awaits of a network call, the promise    *)
(* continuations chained on it included.  React 18 applies queued state    *)
(* updates in order; the state variables hold the value after the queued   *)
(* updates, and Render is the later task in which React re-renders and     *)
(* runs the effects whose dependencies changed.  A state update of an      *)
(* unmounted component is discarded by React.  React renders before the    *)
(* next timer, consumer call or unmount is handled; a response that was    *)
(* already queued may be handled before the render.                        *)
(*                                                                         *)
(* Time is counted in units of 30 seconds (Tick).  Instants are kept as    *)
(* ages: lastSync = k says that lastSync was set k units ago.              *)
(* The state variable error (setError) is read by no effect and no         *)
(* callback of the hook and is left out.                                   *)
(*                                                                         *)
(* The live-update channel (setupRealtimeSubscription) works with delays   *)
(* of 5 and 10 seconds, shorter than one unit: TickFine lets 5 seconds     *)
(* pass for these timers alone, and a Tick of 30 seconds is taken only     *)
(* when none of them is pending.                                           *)
(***************************************************************************)
EXTENDS Integers, FiniteSets, Sequences, Bags, TLC

\* ---------------------------------------------------------------- bounds
\* at most this many asynchronous operations (fetches, cycles) in flight
MaxOps == 2
\* at most this many subscriptions are created in one run
MaxSubs == 2
\* at most this many rows come from the store or from the remote feed
MaxRows == 2
\* at most this many fetches are issued in the specification of the data
MaxFetches == 2
\* failing steps are taken only while consecutiveErrors stays within this cap
MaxErrors == 3

\* ------------------------------------------------------ program constants
FAST_INTERVAL == 30
NORMAL_INTERVAL == 60
SLOW_INTERVAL == 120
FALLBACK_INTERVAL == 300
\* the thresholds calculateOptimalInterval compares consecutiveErrors with
FallbackErrors == 3
SlowErrors == 1
\* useState(30): the interval exposed before any setupAutoSync
InitialSyncInterval == 30
\* Math.min(hours, 48) in generateMockData
MaxMockPoints == 48
\* setTimeout(..., 5000) of the effect "Setup real-time"
RealtimeDelayMs == 5000
\* setTimeout(..., 10000) of setupRealtimeSubscription
SubscriptionTimeoutMs == 10000
\* the ranges fetchData and generateMockData clamp chart values to, and the
\* values fetchData puts in place of a missing one
MinTemperature == 15
MaxTemperature == 30
MinHumidity == 35
MaxHumidity == 85
MinDust == 0
MaxSmallDust == 60
MaxLargeParticles == 40
DefaultTemperature == 22
DefaultHumidity == 60
DefaultSmallDust == 15
DefaultLargeParticles == 10
\* generateHistoricalData(24) in the catch branch of GET /api/sensor-data
CatchHours == 24
\* the windows the hook is constructed with (24 is the default, 0 an empty one)
HoursChoices == {0, 24}

\* one time unit of the model is the shortest interval, in seconds
Units(seconds) == seconds \div FAST_INTERVAL
\* 2 * 60 * 1000 ms, in units: a lastSync younger than this is "recent"
RecentUnits == Units(2 * 60)

\* lastSync = null
NoSync == -1

\* the delays of the live-update channel in units of 5 seconds
FineUnits(ms) == ms \div RealtimeDelayMs
\* no setTimeout pending
NoTimeout == -1
\* subscriptionRef.current = null
NoSubscription == 0

VARIABLES
  \* props of the hook
  hours, autoSync, enableRealtime,
  \* React state (useState)
  data, loading, lastSync, isUsingMockData, syncInterval, consecutiveErrors,
  realtimeEnabled,
  \* whether the component is mounted
  mounted,
  \* syncIntervalRef: the armed setInterval timer with the closure of its callback
  syncIntervalRef,
  \* the dependencies of the effect "Setup auto-sync" changed since the last render
  dirtySync,
  \* the dependencies of the effect "Setup real-time" whose value is not the
  \* one of the last render
  dirtyLive,
  \* the 5 second setTimeout of the effect "Setup real-time": units left, or NoTimeout
  realtimeTimer,
  \* subscriptionRef (the id of a subscription, or NoSubscription) and isSubscribedRef
  subscriptionRef, isSubscribedRef,
  \* the subscriptions created so far: status and the units left of the 10 second timeout
  subs,
  \* asynchronous operations in flight (a bag of records)
  ops,
  \* history: consecutiveErrors when the cycle now in flight began, if it runs alone
  cycleE0,
  \* history: the sync+fetch cycle that completed last, until the state is written again
  last,
  \* history: the armed timer when a fetch started by a live notification completed
  liveDue,
  \* history: for how long the conditions of the effect "Setup real-time" have held
  eligible,
  \* the content of the data: the response of GET /api/sensor-data on its way
  \* to the hook, and the SensorData object the hook holds in data
  response, sensorData,
  \* the number of fetches issued so far in the specification of the data
  fetchNo,
  \* a call of the sensor generator: its arguments and, once it returned, its result
  generated

LiveVars == <<realtimeEnabled, realtimeTimer, subscriptionRef, isSubscribedRef, subs>>

vars == <<hours, autoSync, enableRealtime, data, loading, lastSync, isUsingMockData,
          syncInterval, consecutiveErrors, realtimeEnabled, mounted, syncIntervalRef,
          dirtySync, dirtyLive, realtimeTimer, subscriptionRef, isSubscribedRef, subs,
          ops, cycleE0, last, liveDue, eligible, response, sensorData, fetchNo,
          generated>>

DataVars == <<response, sensorData, fetchNo, generated>>

\* ------------------------------------------------------------- helpers
Min(a, b) == IF a < b THEN a ELSE b
Max(a, b) == IF a > b THEN a ELSE b

\* an instant one unit later: ages saturate at RecentUnits ("2 minutes or more")
Older(age) == IF age = NoSync THEN NoSync ELSE Min(age + 1, RecentUnits)

NoClosure == [errs |-> 0, mock |-> FALSE, hasData |-> FALSE, ls |-> NoSync, opt |-> 0]
NoTimer == [period |-> 0, remaining |-> 0, clo |-> NoClosure]
\* a subscription that has not been created yet
NoSub == [status |-> "none", timeout |-> NoTimeout]
NoDue == [period |-> 0, remaining |-> -1]
\* no response on its way; data = null
NoResponse == [path |-> "none"]
NoData == [path |-> "null"]
\* the sensor generator is not called
NoCall == [call |-> "none"]

\* outcomes of POST /api/sync-thingspeak followed by response.json(): success
\* true, success false with and without an error text, a rejected fetch, a
\* body that does not parse
SyncOutcomes == {"ok", "fail", "failNoText", "netErr", "badBody"}
SyncThrows == {"netErr", "badBody"}
\* outcomes of GET /api/sensor-data followed by response.json(): real data,
\* isMockData, a non-2xx status, a rejected fetch, neither success nor isMockData
FetchOutcomes == {"real", "mock", "httpErr", "netErr", "noSuccess"}
FetchFails == {"httpErr", "netErr", "noSuccess"}

\* calculateOptimalInterval without its branch for mock data
calculateOptimalIntervalNoMockBranch(errs, mock, hasData, age) ==
  IF errs >= FallbackErrors THEN FALLBACK_INTERVAL
  ELSE IF errs >= SlowErrors THEN SLOW_INTERVAL
  ELSE IF hasData /\ ~mock /\ age # NoSync /\ age < RecentUnits THEN FAST_INTERVAL
  ELSE NORMAL_INTERVAL

\* calculateOptimalInterval with "consecutiveErrors > 3" for the fallback
calculateOptimalIntervalLateFallback(errs, mock, hasData, age) ==
  IF errs > FallbackErrors THEN FALLBACK_INTERVAL
  ELSE IF errs >= SlowErrors THEN SLOW_INTERVAL
  ELSE IF mock THEN FAST_INTERVAL
  ELSE IF hasData /\ ~mock /\ age # NoSync /\ age < RecentUnits THEN FAST_INTERVAL
  ELSE NORMAL_INTERVAL

\* calculateOptimalInterval over the state its closure holds; age is
\* Date.now() - lastSync.getTime() in units
calculateOptimalInterval(errs, mock, hasData, age) ==
  IF errs >= FallbackErrors THEN FALLBACK_INTERVAL
  ELSE IF errs >= SlowErrors THEN SLOW_INTERVAL
  ELSE IF mock THEN FAST_INTERVAL
  ELSE IF hasData /\ ~mock /\ age # NoSync /\ age < RecentUnits THEN FAST_INTERVAL
  ELSE NORMAL_INTERVAL

\* the state a calculateOptimalInterval closure captured at a render, kept as
\* far as the function reads it: consecutiveErrors up to the largest threshold,
\* isUsingMockData, data and lastSync only where the function gets to them
Capture(errs, mock, hasData, age, opt) ==
  LET readsMock == errs < SlowErrors
      readsData == readsMock /\ ~mock
      readsLastSync == readsData /\ hasData
  IN [errs |-> Min(errs, FallbackErrors), mock |-> readsMock /\ mock,
      hasData |-> readsLastSync, ls |-> IF readsLastSync THEN age ELSE NoSync,
      opt |-> opt]

\* generateMockData: the number of chart points; with none,
\* chartData[chartData.length - 1].temperature throws a TypeError
MockPoints(h) == Min(Max(h, 0), MaxMockPoints)
generateMockDataThrows(h) == MockPoints(h) = 0

\* ---------------------------------------------------------- React state
\* the state and the ref an action works on, as one record
Cur ==
  [data |-> data, loading |-> loading, lastSync |-> lastSync,
   isUsingMockData |-> isUsingMockData, syncInterval |-> syncInterval,
   consecutiveErrors |-> consecutiveErrors,
   syncIntervalRef |-> syncIntervalRef, dirtySync |-> dirtySync,
   dirtyLive |-> dirtyLive]

\* the dependencies of the effect with realtimeEnabled among them
SyncDepsWithRealtimeEnabled ==
  {"loading", "consecutiveErrors", "isUsingMockData", "data", "lastSync", "realtimeEnabled"}

\* the dependencies of the effect at lines 429-439; setupAutoSync is a new
\* function when calculateOptimalInterval is, that is when data or lastSync are
SyncDeps == {"loading", "consecutiveErrors", "isUsingMockData", "data", "lastSync"}

\* the dependencies of the effect at lines 442-450; setupRealtimeSubscription
\* is a new function when enableRealtime or isUsingMockData changed
LiveDeps == {"loading", "isUsingMockData"}

\* the dependencies, all of them booleans, whose value differs from the one
\* of the last render: a second change gives the rendered value back
Toggle(changed, f) == IF f \in changed THEN changed \ {f} ELSE changed \cup {f}

\* a setter of state that is kept outside the component and outlives it
SetStateUnguarded(s, f, v, fresh) ==
  [s EXCEPT ![f] = v,
            !.dirtySync = @ \/ (f \in SyncDeps /\ (fresh \/ s[f] # v)),
            !.dirtyLive = IF f \in LiveDeps /\ s[f] # v THEN Toggle(@, f) ELSE @]

\* a useState setter (fresh: the value is a new object); React drops the
\* update of an unmounted component
SetState(s, f, v, fresh) ==
  IF ~mounted THEN s
  ELSE [s EXCEPT ![f] = v,
                 !.dirtySync = @ \/ (f \in SyncDeps /\ (fresh \/ s[f] # v)),
                 !.dirtyLive = IF f \in LiveDeps /\ s[f] # v THEN Toggle(@, f) ELSE @]

Commit(s) ==
  /\ data' = s.data
  /\ loading' = s.loading
  /\ lastSync' = s.lastSync
  /\ isUsingMockData' = s.isUsingMockData
  /\ syncInterval' = s.syncInterval
  /\ consecutiveErrors' = s.consecutiveErrors
  /\ syncIntervalRef' = s.syncIntervalRef
  /\ dirtySync' = s.dirtySync
  /\ dirtyLive' = s.dirtyLive

\* ------------------------------------------------------ operations in flight
\* origin: who started it ("initial": the mount effect, "timer": the interval
\* callback, "force": a consumer calling syncThingSpeak); pc: the await it is
\* suspended at ("sync": the POST of syncThingSpeak, "fetch": the GET of
\* fetchData); res: the sync result a cycle holds while its fetch runs; clo:
\* the closure of the timer callback
NewOp(origin, pc, clo) == [origin |-> origin, pc |-> pc, res |-> "none", clo |-> clo]

InFlight == BagCardinality(ops)

RECURSIVE CopiesOfImage(_, _, _, _)
CopiesOfImage(F(_), B, S, t) ==
  IF S = {} THEN 0
  ELSE LET r == CHOOSE x \in S : TRUE
       IN (IF F(r) = t THEN CopiesIn(r, B) ELSE 0) + CopiesOfImage(F, B, S \ {r}, t)

BagMap(F(_), B) ==
  LET S == BagToSet(B)
  IN [t \in {F(r) : r \in S} |-> CopiesOfImage(F, B, S, t)]

AddOp(r) == ops (+) SetToBag({r})
RemoveOp(r) == ops (-) SetToBag({r})
ReplaceOp(r, q) == (ops (-) SetToBag({r})) (+) SetToBag({q})

IsCycle(op) == op.origin \in {"timer", "force"}

\* ----------------------------------------------------------- the code
\* setupAutoSync, called with the state its calculateOptimalInterval closure holds
setupAutoSync(s, errs, mock, hasData, age) ==
  LET cleared == [s EXCEPT !.syncIntervalRef = NoTimer]
      optimalInterval == calculateOptimalInterval(errs, mock, hasData, age)
  IN IF ~autoSync THEN cleared
     ELSE [SetState(cleared, "syncInterval", optimalInterval, FALSE)
             EXCEPT !.syncIntervalRef =
               [period |-> optimalInterval, remaining |-> Units(optimalInterval),
                clo |-> Capture(errs, mock, hasData, age, optimalInterval)]]

\* the setInterval callback after "await syncThingSpeak()"
IntervalCallbackTail(s, clo) ==
  LET newInterval == calculateOptimalInterval(clo.errs, clo.mock, clo.hasData, clo.ls)
  IN IF newInterval # clo.opt
     THEN setupAutoSync(s, clo.errs, clo.mock, clo.hasData, clo.ls)
     ELSE s

\* the success branch counting a response with isMockData as an error
fetchDataSuccessCountsMock(s, out) ==
  LET s1 == SetState(s, "data", out, TRUE)
      s2 == SetState(s1, "lastSync", 0, TRUE)
      s3 == SetState(s2, "isUsingMockData", out = "mock", FALSE)
      s4 == SetState(s3, "consecutiveErrors",
                     IF out = "mock" THEN s.consecutiveErrors + 1 ELSE 0, FALSE)
  IN SetState(s4, "loading", FALSE, FALSE)

\* fetchData after the response: the success branch and finally
fetchDataSuccess(s, out) ==
  LET s1 == SetState(s, "data", out, TRUE)
      s2 == SetState(s1, "lastSync", 0, TRUE)
      s3 == SetState(s2, "isUsingMockData", out = "mock", FALSE)
      s4 == SetState(s3, "consecutiveErrors", 0, FALSE)
  IN SetState(s4, "loading", FALSE, FALSE)

\* fetchData after the response: the catch branch and finally
fetchDataCatch(s) ==
  LET s1 == SetState(s, "consecutiveErrors", s.consecutiveErrors + 1, FALSE)
      s2 == SetState(s1, "data", "gen", TRUE)
      s3 == SetState(s2, "isUsingMockData", TRUE, FALSE)
  IN IF generateMockDataThrows(hours)
     THEN SetState(s1, "loading", FALSE, FALSE)
     ELSE SetState(s3, "loading", FALSE, FALSE)

fetchDataEnd(s, out) ==
  IF out \in FetchFails THEN fetchDataCatch(s) ELSE fetchDataSuccess(s, out)

\* whether the promise of fetchData rejects: generateMockData threw in the catch branch
fetchDataRejects(out) == out \in FetchFails /\ generateMockDataThrows(hours)

\* syncThingSpeak: the catch branch, its state and the object it returns
syncCatchState(s) == SetState(s, "consecutiveErrors", s.consecutiveErrors + 1, FALSE)

syncCatchResult == [promise |-> "resolved", success |-> FALSE, errText |-> TRUE]

\* syncThingSpeak: "return result", the parsed body of the sync response
syncReturnResult(res) ==
  [promise |-> "resolved", success |-> res = "ok", errText |-> res = "fail"]

\* syncThingSpeak after the sync response, up to the await of fetchData
syncAfterResponse(s, out) ==
  IF out = "ok"
  THEN SetState(s, "consecutiveErrors", 0, FALSE)
  ELSE SetState(s, "consecutiveErrors", s.consecutiveErrors + 1, FALSE)

\* ------------------------------------------------- the live-update channel
\* the refs and the state the subscription code works on, as one record
Live ==
  [subscriptionRef |-> subscriptionRef, isSubscribedRef |-> isSubscribedRef,
   subs |-> subs, realtimeEnabled |-> realtimeEnabled]

CommitLive(l) ==
  /\ subscriptionRef' = l.subscriptionRef
  /\ isSubscribedRef' = l.isSubscribedRef
  /\ subs' = l.subs
  /\ realtimeEnabled' = l.realtimeEnabled

\* cleanupSubscription; alive: React still takes state updates of the component
cleanupSubscription(l, alive) ==
  IF l.subscriptionRef = NoSubscription THEN l
  ELSE [l EXCEPT !.subs[l.subscriptionRef].status = "closed",
                 !.subscriptionRef = NoSubscription,
                 !.isSubscribedRef = FALSE,
                 !.realtimeEnabled = IF alive THEN FALSE ELSE @]

\* the outcomes of the table access test "select id limit 1": rows, an error
\* in the result, a rejected request
TableOutcomes == {"ok", "testError", "throws"}

\* the statuses the subscribe callback acts on
SubscribeStatuses == {"SUBSCRIBED", "CHANNEL_ERROR"}

\* setupRealtimeSubscription after the table access test: return on an error,
\* cleanupSubscription in the catch branch, else a new subscription k with
\* its 10 second timeout, stored in subscriptionRef
setupAfterTableTest(l, out, k) ==
  IF out = "testError" THEN l
  ELSE IF out = "throws" THEN cleanupSubscription(l, mounted)
  ELSE [l EXCEPT !.subs[k] = [status |-> "pending",
                              timeout |-> FineUnits(SubscriptionTimeoutMs)],
                 !.subscriptionRef = k]

\* the callback of subscribe()
subscribeCallback(l, k, status) ==
  IF status = "SUBSCRIBED"
  THEN [l EXCEPT !.subs[k].status = "subscribed",
                 !.realtimeEnabled = IF mounted THEN TRUE ELSE @,
                 !.isSubscribedRef = TRUE]
  ELSE cleanupSubscription(l, mounted)

\* setRealtimeEnabled changed the state of the mounted component and
\* realtimeEnabled is a dependency in deps: the effect runs at the next render
RealtimeEnabledIn(deps) ==
  mounted /\ "realtimeEnabled" \in deps /\ realtimeEnabled' # realtimeEnabled

\* the subscriptions not created yet
FreeSubs == {k \in 1..MaxSubs : subs[k].status = "none"}

NoFineTimer ==
  /\ realtimeTimer = NoTimeout
  /\ \A k \in 1..MaxSubs : subs[k].timeout = NoTimeout

FineTimerDue ==
  \/ realtimeTimer = 0
  \/ \E k \in 1..MaxSubs : subs[k].timeout = 0

\* ------------------------------------------------------------- history
\* the age of the conditions of the effect "Setup real-time", in units of 5
\* seconds up to 1: -1 while they do not hold
EligibleAfter(s) ==
  IF ~(enableRealtime /\ ~s.loading /\ ~s.isUsingMockData) THEN -1
  ELSE IF eligible = -1 THEN 0 ELSE eligible

NoLast ==
  [origin |-> "none", syncOut |-> "none", fetchOut |-> "none", e0 |-> -1,
   rendered |-> FALSE, promise |-> "none", success |-> FALSE, errText |-> FALSE]

SyncClass(out) == IF out \in SyncThrows THEN "threw" ELSE out
FetchClass(out) ==
  IF fetchDataRejects(out) THEN "reject" ELSE IF out \in FetchFails THEN "fail" ELSE out

Completed(op, syncOut, fetchOut, result) ==
  IF ~IsCycle(op) THEN NoLast
  ELSE [origin |-> op.origin, syncOut |-> syncOut, fetchOut |-> fetchOut,
        e0 |-> cycleE0, rendered |-> FALSE,
        promise |-> result.promise, success |-> result.success,
        errText |-> result.errText]

\* ------------------------------------------------------------- actions
\* the state after the first render and its effects
ConstructedHook ==
  /\ data = "none"
  /\ loading = TRUE
  /\ lastSync = NoSync
  /\ isUsingMockData = FALSE
  /\ syncInterval = InitialSyncInterval
  /\ consecutiveErrors = 0
  /\ mounted = TRUE
  /\ syncIntervalRef = NoTimer
  /\ dirtySync = FALSE
  \* the mount effect "Initial data fetch" has called fetchData
  /\ ops = SetToBag({NewOp("initial", "fetch", NoClosure)})
  /\ cycleE0 = -1
  /\ last = NoLast
  /\ realtimeEnabled = FALSE
  /\ dirtyLive = {}
  /\ realtimeTimer = NoTimeout
  /\ subscriptionRef = NoSubscription
  /\ isSubscribedRef = FALSE
  /\ subs = [k \in 1..MaxSubs |-> NoSub]
  /\ liveDue = NoDue
  /\ eligible = -1
  /\ response = NoResponse
  /\ sensorData = NoData
  /\ fetchNo = 0

Constructed == ConstructedHook /\ generated = NoCall

\* the hook constructed without live updates (the default of enableRealtime)
Init ==
  /\ hours \in HoursChoices
  /\ autoSync \in BOOLEAN
  /\ enableRealtime = FALSE
  /\ Constructed

Props == <<hours, autoSync, enableRealtime>>

\* state updates are queued and React has not rendered them yet
RenderPending == mounted /\ (dirtySync \/ dirtyLive # {})
ReactState == <<data, loading, lastSync, isUsingMockData, syncInterval, consecutiveErrors>>

\* a consumer calls the exposed syncThingSpeak (forceSync)
ForceSync ==
  /\ mounted
  /\ ~RenderPending
  /\ InFlight < MaxOps
  /\ ops' = AddOp(NewOp("force", "sync", NoClosure))
  /\ cycleE0' = IF InFlight = 0 THEN consecutiveErrors ELSE -1
  /\ last' = NoLast
  /\ liveDue' = NoDue
  /\ UNCHANGED <<Props, DataVars, ReactState, mounted, syncIntervalRef, dirtySync, dirtyLive,
                 LiveVars, eligible>>

\* the setInterval timer of setupAutoSync is due: its callback calls syncThingSpeak
TimerFire ==
  /\ ~RenderPending
  /\ syncIntervalRef # NoTimer
  /\ syncIntervalRef.remaining = 0
  /\ InFlight < MaxOps
  /\ ops' = AddOp(NewOp("timer", "sync", syncIntervalRef.clo))
  /\ syncIntervalRef' = [syncIntervalRef EXCEPT !.remaining = Units(syncIntervalRef.period)]
  /\ cycleE0' = IF InFlight = 0 THEN consecutiveErrors ELSE -1
  /\ last' = NoLast
  /\ liveDue' = NoDue
  /\ UNCHANGED <<Props, DataVars, ReactState, mounted, dirtySync, dirtyLive, LiveVars, eligible>>

\* the sync request of a cycle ends with outcome out
SyncResponds(op, out) ==
  /\ op.pc = "sync"
  /\ (out # "ok" /\ mounted) => consecutiveErrors < MaxErrors
  /\ IF out \in SyncThrows
     THEN LET caught == syncCatchState(Cur)
              after == IF op.origin = "timer"
                       THEN IntervalCallbackTail(caught, op.clo) ELSE caught
          IN /\ Commit(after)
             /\ ops' = RemoveOp(op)
             /\ cycleE0' = -1
             /\ last' = Completed(op, SyncClass(out), "none", syncCatchResult)
     ELSE /\ Commit(syncAfterResponse(Cur, out))
          /\ ops' = ReplaceOp(op, [op EXCEPT !.pc = "fetch", !.res = out])
          /\ cycleE0' = cycleE0
          /\ last' = NoLast
  /\ liveDue' = NoDue
  /\ UNCHANGED <<Props, DataVars, mounted, LiveVars, eligible>>

\* the request of a fetchData call ends with outcome out; a cycle then returns
\* from syncThingSpeak and, started by the timer, runs the rest of the callback
FetchResponds(op, out) ==
  /\ op.pc = "fetch"
  /\ LET fetched == fetchDataEnd(Cur, out)
         caught == IF IsCycle(op) /\ fetchDataRejects(out)
                   THEN syncCatchState(fetched) ELSE fetched
         result == IF IsCycle(op) /\ fetchDataRejects(out)
                   THEN syncCatchResult ELSE syncReturnResult(op.res)
         after == IF op.origin = "timer"
                  THEN IntervalCallbackTail(caught, op.clo) ELSE caught
     IN /\ after.consecutiveErrors <= MaxErrors
        /\ Commit(after)
        /\ last' = Completed(op, op.res, FetchClass(out), result)
        /\ eligible' = EligibleAfter(after)
  /\ ops' = RemoveOp(op)
  /\ cycleE0' = -1
  /\ liveDue' = IF op.origin = "live" /\ mounted /\ syncIntervalRef # NoTimer
                 THEN [period |-> syncIntervalRef.period,
                       remaining |-> syncIntervalRef.remaining]
                 ELSE NoDue
  /\ UNCHANGED <<Props, DataVars, mounted, LiveVars>>

\* the effect "Setup auto-sync" with its cleanup alone
RenderSyncCleanupOnly(s) ==
  [s EXCEPT !.syncIntervalRef = NoTimer, !.dirtySync = FALSE]

\* React re-renders and runs the effect "Setup auto-sync after initial load"
\* when its dependencies changed: its cleanup, then the effect
RenderSync(s) ==
  LET cleaned == [s EXCEPT !.syncIntervalRef = NoTimer, !.dirtySync = FALSE]
  IN IF ~cleaned.loading
     THEN setupAutoSync(cleaned, cleaned.consecutiveErrors, cleaned.isUsingMockData,
                        cleaned.data # "none", cleaned.lastSync)
     ELSE cleaned

\* the effect "Setup real-time only if explicitly enabled" when its
\* dependencies changed: its cleanup (clearTimeout), then the effect
RenderLive(s) ==
  IF s.dirtyLive = {} THEN realtimeTimer
  ELSE IF ~s.loading /\ enableRealtime /\ ~s.isUsingMockData
       THEN FineUnits(RealtimeDelayMs)
       ELSE NoTimeout

Render ==
  /\ mounted
  /\ dirtySync
  /\ Commit([RenderSync(Cur) EXCEPT !.dirtyLive = {}])
  /\ realtimeTimer' = RenderLive(Cur)
  /\ last' = IF last.origin = "none" THEN last ELSE [last EXCEPT !.rendered = TRUE]
  /\ UNCHANGED <<Props, DataVars, mounted, ops, cycleE0, realtimeEnabled, subscriptionRef,
                 isSubscribedRef, subs, liveDue, eligible>>

\* the component unmounts: the cleanups of the effects run
Unmount ==
  /\ mounted
  /\ ~RenderPending
  /\ mounted' = FALSE
  /\ syncIntervalRef' = NoTimer
  /\ realtimeTimer' = NoTimeout
  /\ CommitLive(cleanupSubscription(Live, FALSE))
  /\ last' = NoLast
  /\ liveDue' = NoDue
  /\ UNCHANGED <<Props, DataVars, ReactState, dirtySync, dirtyLive, ops, cycleE0, eligible>>

\* 30 seconds pass: no timer is due and React has rendered
AgeClosure(c) == [c EXCEPT !.ls = Older(@)]
AgeOp(r) == [r EXCEPT !.clo = AgeClosure(@)]

Tick ==
  /\ syncIntervalRef # NoTimer => syncIntervalRef.remaining > 0
  /\ NoFineTimer
  /\ ~RenderPending
  /\ lastSync' = Older(lastSync)
  /\ syncIntervalRef' =
       IF syncIntervalRef = NoTimer THEN NoTimer
       ELSE [syncIntervalRef EXCEPT !.remaining = @ - 1, !.clo = AgeClosure(@)]
  /\ ops' = BagMap(AgeOp, ops)
  /\ last' = NoLast
  /\ liveDue' = NoDue
  /\ eligible' = IF eligible = 0 THEN 1 ELSE eligible
  /\ UNCHANGED <<Props, DataVars, data, loading, isUsingMockData, syncInterval,
                 consecutiveErrors, mounted, dirtySync, dirtyLive, cycleE0, LiveVars>>

\* the 5 second timer of the effect "Setup real-time" is due:
\* setupRealtimeSubscription runs up to its await (creds: the two Supabase
\* environment variables are set)
RealtimeDelayFires(creds) ==
  /\ realtimeTimer = 0
  /\ ~RenderPending
  /\ realtimeTimer' = NoTimeout
  /\ IF ~enableRealtime \/ isSubscribedRef \/ isUsingMockData \/ ~creds
     THEN ops' = ops
     ELSE /\ InFlight < MaxOps
          /\ ops' = AddOp(NewOp("setup", "table", NoClosure))
  /\ cycleE0' = IF ops' = ops THEN cycleE0 ELSE -1
  /\ last' = NoLast
  /\ liveDue' = NoDue
  /\ UNCHANGED <<Props, DataVars, ReactState, mounted, syncIntervalRef, dirtySync, dirtyLive,
                 realtimeEnabled, subscriptionRef, isSubscribedRef, subs, eligible>>

\* the table access test of a setupRealtimeSubscription call ends with outcome out
TableResponds(op, out) ==
  /\ op.pc = "table"
  /\ out = "ok" => FreeSubs # {}
  /\ LET k == IF FreeSubs = {} THEN 1 ELSE CHOOSE i \in FreeSubs : \A j \in FreeSubs : i <= j
     IN CommitLive(setupAfterTableTest(Live, out, k))
  /\ ops' = RemoveOp(op)
  /\ last' = NoLast
  /\ liveDue' = NoDue
  /\ dirtySync' = (dirtySync \/ RealtimeEnabledIn(SyncDeps))
  /\ dirtyLive' = IF RealtimeEnabledIn(LiveDeps)
                  THEN Toggle(dirtyLive, "realtimeEnabled") ELSE dirtyLive
  /\ UNCHANGED <<Props, DataVars, ReactState, mounted, syncIntervalRef,
                 realtimeTimer, cycleE0, eligible>>

\* the channel of subscription k reports a status to the subscribe callback
SubscribeStatus(k, status) ==
  /\ subs[k].status \in (IF status = "SUBSCRIBED" THEN {"pending"}
                          ELSE {"pending", "subscribed"})
  /\ CommitLive(subscribeCallback(Live, k, status))
  /\ last' = NoLast
  /\ liveDue' = NoDue
  /\ dirtySync' = (dirtySync \/ RealtimeEnabledIn(SyncDeps))
  /\ dirtyLive' = IF RealtimeEnabledIn(LiveDeps)
                  THEN Toggle(dirtyLive, "realtimeEnabled") ELSE dirtyLive
  /\ UNCHANGED <<Props, DataVars, ReactState, mounted, syncIntervalRef,
                 realtimeTimer, ops, cycleE0, eligible>>

\* the 10 second timeout set when subscription k was created is due
SubscriptionTimeout(k) ==
  /\ subs[k].timeout = 0
  /\ ~RenderPending
  /\ LET fired == [Live EXCEPT !.subs[k].timeout = NoTimeout]
     IN CommitLive(IF ~isSubscribedRef THEN cleanupSubscription(fired, mounted) ELSE fired)
  /\ last' = NoLast
  /\ liveDue' = NoDue
  /\ dirtySync' = (dirtySync \/ RealtimeEnabledIn(SyncDeps))
  /\ dirtyLive' = IF RealtimeEnabledIn(LiveDeps)
                  THEN Toggle(dirtyLive, "realtimeEnabled") ELSE dirtyLive
  /\ UNCHANGED <<Props, DataVars, ReactState, mounted, syncIntervalRef,
                 realtimeTimer, ops, cycleE0, eligible>>

\* subscription k delivers an INSERT or UPDATE notification: the handler calls
\* fetchDataRef.current()
Notification(k) ==
  /\ subs[k].status = "subscribed"
  /\ ~RenderPending
  /\ InFlight < MaxOps
  /\ ops' = AddOp(NewOp("live", "fetch", NoClosure))
  /\ cycleE0' = -1
  /\ last' = NoLast
  /\ liveDue' = NoDue
  /\ UNCHANGED <<Props, DataVars, ReactState, mounted, syncIntervalRef, dirtySync, dirtyLive,
                 LiveVars, eligible>>

\* 5 seconds pass for the timers of the live-update channel
TickFine ==
  /\ ~NoFineTimer
  /\ ~FineTimerDue
  /\ ~RenderPending
  /\ realtimeTimer' = IF realtimeTimer > 0 THEN realtimeTimer - 1 ELSE realtimeTimer
  /\ subs' = [k \in 1..MaxSubs |->
                [subs[k] EXCEPT !.timeout = IF @ > 0 THEN @ - 1 ELSE @]]
  /\ eligible' = IF eligible = 0 THEN 1 ELSE eligible
  /\ last' = NoLast
  /\ liveDue' = NoDue
  /\ UNCHANGED <<Props, DataVars, ReactState, mounted, syncIntervalRef, dirtySync, dirtyLive,
                 realtimeEnabled, subscriptionRef, isSubscribedRef, ops, cycleE0>>

Next ==
  \/ ForceSync
  \/ TimerFire
  \/ \E op \in BagToSet(ops), out \in SyncOutcomes : SyncResponds(op, out)
  \/ \E op \in BagToSet(ops), out \in FetchOutcomes : FetchResponds(op, out)
  \/ Render
  \/ Unmount
  \/ Tick

Spec == Init /\ [][Next]_vars

\* the hook constructed with its default window of 24 hours
InitDefault ==
  /\ hours = 24
  /\ autoSync \in BOOLEAN
  /\ enableRealtime = FALSE
  /\ Constructed

SpecDefault == InitDefault /\ [][Next]_vars

\* the hook with auto-sync and the default window, with and without live
\* updates, in an environment where the sync trigger answers success and a
\* fetch returns real data, mock data or an HTTP error
LiveSyncOutcomes == {"ok"}
LiveFetchOutcomes == {"real", "mock", "httpErr"}

InitLive ==
  /\ hours = 24
  /\ autoSync = TRUE
  /\ enableRealtime \in BOOLEAN
  /\ Constructed

NextLive ==
  \/ TimerFire
  \/ \E op \in BagToSet(ops), out \in LiveSyncOutcomes : SyncResponds(op, out)
  \/ \E op \in BagToSet(ops), out \in LiveFetchOutcomes : FetchResponds(op, out)
  \/ Render
  \/ Unmount
  \/ Tick
  \/ TickFine
  \/ \E creds \in BOOLEAN : RealtimeDelayFires(creds)
  \/ \E op \in BagToSet(ops), out \in TableOutcomes : TableResponds(op, out)
  \/ \E k \in 1..MaxSubs, status \in SubscribeStatuses : SubscribeStatus(k, status)
  \/ \E k \in 1..MaxSubs : SubscriptionTimeout(k)
  \/ \E k \in 1..MaxSubs : Notification(k)

SpecLive == InitLive /\ [][NextLive]_vars

\* ------------------------------------------------- the content of the data
\* Timestamps are whole hours, Now being the hour of the request.  A field
\* that is null or missing is 0: the code reads the fields only through
\* "x ? parseFloat(x) : null" and "x || y", which treat null and 0 alike.
Now == 0

\* the windows of the specification of the data
DataHours == {0, 2, 24, 168, 720}

Reverse(seq) == [i \in 1..Len(seq) |-> seq[Len(seq) + 1 - i]]

\* JavaScript's x || y on numbers
OrElse(x, y) == IF x # 0 THEN x ELSE y

\* Math.max(lo, Math.min(hi, x))
Clamp(lo, hi, x) == Max(lo, Min(hi, x))

\* the measurements of a row of the store or of an entry of the remote feed:
\* values in range, values out of range, and fields that are null
UpstreamValues ==
  { [field1 |-> 15, field2 |-> 10, field4 |-> 60, field5 |-> 22],
    [field1 |-> 70, field2 |-> 50, field4 |-> 90, field5 |-> 35],
    [field1 |-> 0, field2 |-> 0, field4 |-> 0, field5 |-> 0] }

\* rows and feed entries with distinct timestamps, newest first
DescRows(n) ==
  { [i \in 1..n |-> [created_at |-> Now - i, field1 |-> f[i].field1,
                      field2 |-> f[i].field2, field4 |-> f[i].field4,
                      field5 |-> f[i].field5]] : f \in [1..n -> UpstreamValues] }

\* the result of the query on sensor_readings (created_at >= now - hours,
\* newest first, at most limit rows); no rows also stands for a failed query
\* ("result.data || []" and the catch of the query leave readings empty)
StoreResults(h) ==
  {<<>>} \cup UNION {DescRows(n) : n \in 1..Min(MaxRows, Max(h, 0))}

\* the feeds of the remote channel in the order the remote returns them
\* (oldest first or newest first); no feeds also stands for a remote that is
\* down, answers with an error status or without a feed list
FeedResults ==
  {<<>>} \cup UNION {DescRows(n) \cup {Reverse(r) : r \in DescRows(n)} : n \in 1..MaxRows}

\* two of the readings generateReading returns, for Math.random()
GenValues ==
  << [temperature |-> 20, humidity |-> 64, smallDustParticles |-> 13, largeParticles |-> 8],
     [temperature |-> 24, humidity |-> 56, smallDustParticles |-> 17, largeParticles |-> 10] >>
GenSeeds == {0, 1}
Pick(seed, hoursAgo) == ((seed + hoursAgo) % 2) + 1

\* CoffeeWarehouseSensorGenerator.generateReading
generateReading(hoursAgo, pick) ==
  [timestamp |-> Now - hoursAgo,
   temperature |-> GenValues[pick].temperature,
   humidity |-> Clamp(MinHumidity, MaxHumidity, GenValues[pick].humidity),
   smallDustParticles |-> GenValues[pick].smallDustParticles,
   largeParticles |-> GenValues[pick].largeParticles]

\* generateHistoricalData pushing the reading of now first
generateHistoricalDataNewestFirst(h, seed) ==
  [i \in 1..Max(h, 0) |-> generateReading(i - 1, Pick(seed, i - 1))]

\* CoffeeWarehouseSensorGenerator.generateHistoricalData: hoursAgo from
\* hours - 1 down to 0
generateHistoricalData(h, seed) ==
  [i \in 1..Max(h, 0) |-> generateReading(h - i, Pick(seed, h - i))]

\* GET /api/sensor-data: generated readings in the format of the store
mockToRows(mockReadings) ==
  [i \in 1..Len(mockReadings) |->
     [created_at |-> mockReadings[i].timestamp,
      field1 |-> mockReadings[i].smallDustParticles,
      field2 |-> mockReadings[i].largeParticles,
      field4 |-> mockReadings[i].humidity,
      field5 |-> mockReadings[i].temperature]]

\* GET /api/sensor-data: the readings it answers with, from the store, else
\* from the remote feed in its order, else from the generator
routeReadings(h, feeds, store, histSeed) ==
  LET hasRealData == Len(feeds) > 0
  IN IF Len(store) > 0 THEN store
     ELSE IF hasRealData THEN feeds
     ELSE mockToRows(generateHistoricalData(h, histSeed))

routePath(feeds, store) ==
  IF Len(store) > 0 THEN "store"
  ELSE IF Len(feeds) > 0 THEN "feed"
  ELSE "generator"

\* GET /api/sensor-data: currentValues from latestReading = readings[0], a
\* missing field from a new generateReading(0) each (cvSeed: their random values)
routeCurrentValues(readings, cvSeed) ==
  LET latestReading == IF Len(readings) > 0 THEN readings[1]
                       ELSE [field1 |-> 0, field2 |-> 0, field4 |-> 0, field5 |-> 0]
      fresh(k) == generateReading(0, Pick(cvSeed, k))
  IN [smallDustParticles |-> OrElse(latestReading.field1, fresh(1).smallDustParticles),
      largeParticles |-> OrElse(latestReading.field2, fresh(2).largeParticles),
      humidity |-> OrElse(latestReading.field4, fresh(3).humidity),
      temperature |-> OrElse(latestReading.field5, fresh(4).temperature)]

\* GET /api/sensor-data: chartData = readings.slice().reverse().map(...)
routeChartData(readings) ==
  LET reversed == Reverse(readings)
  IN [i \in 1..Len(reversed) |->
        [timestamp |-> reversed[i].created_at,
         temperature |-> OrElse(reversed[i].field5, 0),
         humidity |-> OrElse(reversed[i].field4, 0),
         smallDust |-> OrElse(reversed[i].field1, 0),
         largeParticles |-> OrElse(reversed[i].field2, 0)]]

\* GET /api/sensor-data: the response of the try block; cycle numbers the fetch
GET(h, feeds, store, histSeed, cvSeed, cycle) ==
  LET readings == routeReadings(h, feeds, store, histSeed)
      hasRealData == Len(feeds) > 0
  IN [path |-> routePath(feeds, store),
      success |-> TRUE,
      isMockData |-> ~hasRealData /\ Len(readings) > 0,
      currentValues |-> routeCurrentValues(readings, cvSeed),
      chartData |-> routeChartData(readings),
      cycle |-> cycle]

\* GET /api/sensor-data: the response of the catch branch
GETCatch(histSeed, cycle) ==
  LET mockReadings == generateHistoricalData(CatchHours, histSeed)
      latestReading == mockReadings[Len(mockReadings)]
  IN [path |-> "catch",
      success |-> FALSE,
      isMockData |-> TRUE,
      currentValues |->
        [temperature |-> latestReading.temperature, humidity |-> latestReading.humidity,
         smallDustParticles |-> latestReading.smallDustParticles,
         largeParticles |-> latestReading.largeParticles],
      chartData |->
        [i \in 1..Len(mockReadings) |->
           [timestamp |-> mockReadings[i].timestamp,
            temperature |-> mockReadings[i].temperature,
            humidity |-> mockReadings[i].humidity,
            smallDust |-> mockReadings[i].smallDustParticles,
            largeParticles |-> mockReadings[i].largeParticles]],
      cycle |-> cycle]

\* fetchData: the clamp of one chart point
clampPoint(point) ==
  [timestamp |-> point.timestamp,
   temperature |->
     Clamp(MinTemperature, MaxTemperature, OrElse(point.temperature, DefaultTemperature)),
   humidity |-> Clamp(MinHumidity, MaxHumidity, OrElse(point.humidity, DefaultHumidity)),
   smallDust |-> Clamp(MinDust, MaxSmallDust, OrElse(point.smallDust, DefaultSmallDust)),
   largeParticles |->
     Clamp(MinDust, MaxLargeParticles, OrElse(point.largeParticles, DefaultLargeParticles))]

\* fetchData: the object passed to setData in the success branch
fetchDataResult(result) ==
  [path |-> result.path,
   isMockData |-> result.isMockData,
   currentValues |-> result.currentValues,
   chartData |-> [i \in 1..Len(result.chartData) |-> clampPoint(result.chartData[i])],
   cvFrom |-> result.cycle,
   chartFrom |-> result.cycle]

\* generateMockData: the chart point of i hours ago
mockPoint(i, pick) ==
  [timestamp |-> Now - i,
   temperature |-> Clamp(MinTemperature, MaxTemperature, GenValues[pick].temperature),
   humidity |-> Clamp(MinHumidity, MaxHumidity, GenValues[pick].humidity),
   smallDust |-> Clamp(MinDust, MaxSmallDust, GenValues[pick].smallDustParticles),
   largeParticles |-> Clamp(MinDust, MaxLargeParticles, GenValues[pick].largeParticles)]

\* generateMockData: Array.from({length: Math.min(hours, 48)}, ...).reverse()
\* and currentValues from the last point
generateMockData(h, seed, cycle) ==
  LET chartData == Reverse([j \in 1..MockPoints(h) |-> mockPoint(j - 1, Pick(seed, j - 1))])
      latest == chartData[Len(chartData)]
  IN [path |-> "hookMock",
      isMockData |-> TRUE,
      currentValues |->
        [temperature |-> latest.temperature, humidity |-> latest.humidity,
         smallDustParticles |-> latest.smallDust, largeParticles |-> latest.largeParticles],
      chartData |-> chartData,
      cvFrom |-> cycle,
      chartFrom |-> cycle]

\* a setData that keeps the currentValues it holds
setDataKeepsCurrentValues(held, new) ==
  IF held = NoData THEN new
  ELSE [new EXCEPT !.currentValues = held.currentValues, !.cvFrom = held.cvFrom]

\* setData(result), setData(mockData): the held object is replaced
setData(held, new) == new

\* the state of the hook outside of data
HookVars ==
  <<autoSync, enableRealtime, ReactState, mounted, syncIntervalRef, dirtySync, dirtyLive,
    LiveVars, ops, cycleE0, last, liveDue, eligible>>

\* GET /api/sensor-data answers a request of fetchData from its try block
RouteResponds ==
  /\ response = NoResponse
  /\ fetchNo < MaxFetches
  /\ \E feeds \in FeedResults, store \in StoreResults(hours), histSeed \in GenSeeds,
        cvSeed \in GenSeeds :
        response' = GET(hours, feeds, store, histSeed, cvSeed, fetchNo + 1)
  /\ fetchNo' = fetchNo + 1
  /\ UNCHANGED <<hours, HookVars, sensorData, generated>>

\* GET /api/sensor-data answers from its catch branch
RouteCatches ==
  /\ response = NoResponse
  /\ fetchNo < MaxFetches
  /\ \E histSeed \in GenSeeds : response' = GETCatch(histSeed, fetchNo + 1)
  /\ fetchNo' = fetchNo + 1
  /\ UNCHANGED <<hours, HookVars, sensorData, generated>>

\* fetchData receives the response: the success branch, or the catch branch
\* when the response has neither success nor isMockData
FetchDataStores ==
  /\ response # NoResponse
  /\ \E seed \in GenSeeds :
       sensorData' =
         IF response.success \/ response.isMockData
         THEN setData(sensorData, fetchDataResult(response))
         ELSE IF generateMockDataThrows(hours) THEN sensorData
         ELSE setData(sensorData, generateMockData(hours, seed, response.cycle))
  /\ response' = NoResponse
  /\ UNCHANGED <<hours, HookVars, fetchNo, generated>>

\* the request of fetchData fails (network error, non-2xx status): the catch branch
FetchDataFails ==
  /\ response = NoResponse
  /\ fetchNo < MaxFetches
  /\ \E seed \in GenSeeds :
       sensorData' =
         IF generateMockDataThrows(hours) THEN sensorData
         ELSE setData(sensorData, generateMockData(hours, seed, fetchNo + 1))
  /\ fetchNo' = fetchNo + 1
  /\ UNCHANGED <<hours, HookVars, response, generated>>

InitData ==
  /\ hours \in DataHours
  /\ autoSync = TRUE
  /\ enableRealtime = FALSE
  /\ Constructed

NextData ==
  \/ RouteResponds
  \/ RouteCatches
  \/ FetchDataStores
  \/ FetchDataFails

SpecData == InitData /\ [][NextData]_vars

\* the polling loop alone: auto-sync on, no consumer call, no teardown.  A due
\* timer callback is run, time passes, React renders queued updates and every
\* request is answered in the end.
InitPolling ==
  /\ hours \in HoursChoices
  /\ autoSync = TRUE
  /\ enableRealtime = FALSE
  /\ Constructed

SyncAnswered == \E op \in BagToSet(ops), out \in SyncOutcomes : SyncResponds(op, out)
FetchAnswered == \E op \in BagToSet(ops), out \in FetchOutcomes : FetchResponds(op, out)

NextPolling ==
  \/ TimerFire
  \/ SyncAnswered
  \/ FetchAnswered
  \/ Render
  \/ Tick

SpecPolling ==
  /\ InitPolling
  /\ [][NextPolling]_vars
  /\ WF_vars(TimerFire)
  /\ WF_vars(SyncAnswered)
  /\ WF_vars(FetchAnswered)
  /\ WF_vars(Render)
  /\ WF_vars(Tick)

\* ------------------------------------------------- the sensor generator
\* The generator's functions on their own.  Temperatures, humidities and
\* dust levels are whole numbers here; determineQuality compares them with
\* whole thresholds, so a value between two whole numbers is classified as
\* the next whole number away from the threshold is.
MaxGenHours == 48

\* determineQuality with its thresholds taken inclusive
determineQualityInclusive(temp, humidity, smallDust) ==
  LET s0 == 100
      s1 == IF temp <= 18 \/ temp >= 24 THEN s0 - 20 ELSE s0
      s2 == IF temp <= 15 \/ temp >= 28 THEN s1 - 30 ELSE s1
      s3 == IF humidity <= 50 \/ humidity >= 65 THEN s2 - 15 ELSE s2
      s4 == IF humidity <= 40 \/ humidity >= 75 THEN s3 - 25 ELSE s3
      s5 == IF smallDust >= 20 THEN s4 - 15 ELSE s4
      s6 == IF smallDust >= 35 THEN s5 - 25 ELSE s5
      score == IF smallDust >= 50 THEN s6 - 40 ELSE s6
  IN IF score >= 85 THEN "excellent"
     ELSE IF score >= 70 THEN "good"
     ELSE IF score >= 50 THEN "moderate"
     ELSE IF score >= 30 THEN "poor"
     ELSE "hazardous"

\* CoffeeWarehouseSensorGenerator.determineQuality
determineQuality(temp, humidity, smallDust) ==
  LET s0 == 100
      s1 == IF temp < 18 \/ temp > 24 THEN s0 - 20 ELSE s0
      s2 == IF temp < 15 \/ temp > 28 THEN s1 - 30 ELSE s1
      s3 == IF humidity < 50 \/ humidity > 65 THEN s2 - 15 ELSE s2
      s4 == IF humidity < 40 \/ humidity > 75 THEN s3 - 25 ELSE s3
      s5 == IF smallDust > 20 THEN s4 - 15 ELSE s4
      s6 == IF smallDust > 35 THEN s5 - 25 ELSE s5
      score == IF smallDust > 50 THEN s6 - 40 ELSE s6
  IN IF score >= 85 THEN "excellent"
     ELSE IF score >= 70 THEN "good"
     ELSE IF score >= 50 THEN "moderate"
     ELSE IF score >= 30 THEN "poor"
     ELSE "hazardous"

\* the arguments determineQuality is called with
QualityTemperatures == 12..32
QualityHumidities == MinHumidity..MaxHumidity
QualityDusts == 5..55

\* the calls of the generator: a call that has not returned yet
GeneratorCalls ==
  { [call |-> "generateHistoricalData", hours |-> n, seed |-> sd, returned |-> FALSE] :
      n \in 0..MaxGenHours, sd \in GenSeeds }
  \cup
  { [call |-> "determineQuality", temp |-> t, humidity |-> h, smallDust |-> d,
     returned |-> FALSE] :
      t \in QualityTemperatures, h \in QualityHumidities, d \in QualityDusts }

\* generateHistoricalData(hours) returns
GenerateHistoricalDataReturns ==
  /\ generated.call = "generateHistoricalData"
  /\ ~generated.returned
  /\ generated' =
       [call |-> "generateHistoricalData", hours |-> generated.hours,
        seed |-> generated.seed, returned |-> TRUE,
        readings |-> generateHistoricalData(generated.hours, generated.seed)]
  /\ UNCHANGED <<hours, HookVars, response, sensorData, fetchNo>>

\* determineQuality(temp, humidity, smallDust) returns
DetermineQualityReturns ==
  /\ generated.call = "determineQuality"
  /\ ~generated.returned
  /\ generated' =
       [call |-> "determineQuality", temp |-> generated.temp,
        humidity |-> generated.humidity, smallDust |-> generated.smallDust,
        returned |-> TRUE,
        quality |-> determineQuality(generated.temp, generated.humidity,
                                     generated.smallDust)]
  /\ UNCHANGED <<hours, HookVars, response, sensorData, fetchNo>>

InitGenerator ==
  /\ hours = 24
  /\ autoSync = TRUE
  /\ enableRealtime = FALSE
  /\ ConstructedHook
  /\ generated \in GeneratorCalls

NextGenerator ==
  \/ GenerateHistoricalDataReturns
  \/ DetermineQualityReturns

SpecGenerator == InitGenerator /\ [][NextGenerator]_vars

\* ============================================================== claims
CyclesInFlight == BagCardinality([op \in {o \in BagToSet(ops) : IsCycle(o)} |-> ops[op]])

CycleFailed(l) == l.syncOut # "ok" \/ l.fetchOut \in {"fail", "reject"}
CycleOk(l) == l.syncOut = "ok" /\ l.fetchOut \in {"real", "mock"}

\* C1: at most one sync+fetch cycle (a timer callback or a forceSync call) is
\* in flight at any time for one hook instance.
C1_AtMostOneCycleInFlight == CyclesInFlight <= 1

\* C2: a fetch that fails while the state of an earlier successful fetch is
\* held adds one to consecutiveErrors and leaves data, isUsingMockData
\* (provenance) and lastSync as they were.
C2_FailedFetchKeepsState ==
  [][\A op \in BagToSet(ops), out \in FetchFails :
       (mounted /\ data \in {"real", "mock"} /\ FetchResponds(op, out))
         => /\ consecutiveErrors' = consecutiveErrors + 1
            /\ data' = data
            /\ isUsingMockData' = isUsingMockData
            /\ lastSync' = lastSync]_vars

\* C3: after a cycle in which a step failed, consecutiveErrors is exactly one
\* greater than when the cycle began (the cycle ran with no other operation
\* in flight, last.e0 being the value when it began).
C3_FailedCycleAddsOne ==
  (mounted /\ last.origin # "none" /\ last.e0 >= 0 /\ CycleFailed(last))
    => consecutiveErrors = last.e0 + 1

\* C4: over a run of failing cycles that starts at consecutiveErrors = 0 the
\* interval is 120 after the first and the second failing cycle and 300 from
\* the third on: after the render that follows a failing cycle which began
\* with consecutiveErrors = e0 (the failure number e0 + 1 of the run), the
\* exposed interval is 120 when e0 + 1 <= 2 and 300 when e0 + 1 >= 3.
C4_IntervalAfterFailingCycle ==
  (mounted /\ autoSync /\ ~loading /\ last.rendered /\ last.e0 >= 0 /\ CycleFailed(last))
    => syncInterval = (IF last.e0 + 1 >= FallbackErrors THEN FALLBACK_INTERVAL
                       ELSE SLOW_INTERVAL)

\* C5: a cycle in which the sync trigger and the fetch both succeed leaves
\* consecutiveErrors = 0, and once React has rendered after it the exposed
\* interval is 30.
C5_SuccessfulCycleResets ==
  (mounted /\ last.origin # "none" /\ CycleOk(last))
    => /\ consecutiveErrors = 0
       /\ last.rendered => syncInterval = FAST_INTERVAL

\* a successful cycle that began in the degraded state has completed and rendered
C5_Witness ==
  /\ mounted /\ autoSync /\ last.rendered /\ CycleOk(last)
  /\ last.e0 >= 1
  /\ syncInterval = FAST_INTERVAL

\* the priority list of the interval selection, over the current state
PriorityList(errs, synthetic, recent) ==
  IF errs >= 3 THEN 300
  ELSE IF errs >= 1 THEN 120
  ELSE IF synthetic THEN 30
  ELSE IF recent THEN 30
  ELSE 60

CurrentPriority ==
  PriorityList(consecutiveErrors, isUsingMockData,
               lastSync # NoSync /\ lastSync < RecentUnits)

\* C6 as stated: after every completed cycle (once React has rendered) the
\* exposed syncInterval is the value of the priority list, for both values of
\* autoSync.
C6_IntervalIsPriorityList ==
  (mounted /\ last.rendered) => syncInterval = CurrentPriority

\* C6 as amended: with autoSync on and the initial load finished, syncInterval
\* is the value of the priority list after the render that follows every
\* completed cycle; with autoSync off it is never recomputed and stays 30.
C6_IntervalIsPriorityListWhenAutoSync ==
  /\ (mounted /\ last.rendered /\ autoSync /\ ~loading) => syncInterval = CurrentPriority
  /\ ~autoSync => syncInterval = InitialSyncInterval

\* a cycle has completed and rendered in the fallback range of the list
C6_Witness ==
  /\ mounted /\ last.rendered /\ autoSync /\ ~loading
  /\ consecutiveErrors >= 3
  /\ syncInterval = FALLBACK_INTERVAL

\* C7: syncInterval is one of 30, 60, 120, 300 in every reachable state, and
\* an armed auto-sync timer has that period.
C7_TimerPeriodIsSyncInterval ==
  /\ syncInterval \in {30, 60, 120, 300}
  /\ syncIntervalRef # NoTimer => syncIntervalRef.period = syncInterval

\* C8: after teardown no auto-sync timer is armed, also when a timer callback
\* was suspended at an await when teardown ran.
C8_NoTimerAfterTeardown == ~mounted => syncIntervalRef = NoTimer

C10_FailureIsReported ==
  last.origin = "force"
    => /\ last.promise = "resolved"
       /\ CycleFailed(last) => (~last.success /\ last.errText)

\* C11: with auto-sync on and no teardown the polling loop never stops: once
\* the initial fetch has completed and React has rendered, a timer is armed
\* or a cycle is in flight in every state, and a scheduled cycle starts
\* infinitely often, whatever the outcomes of the sync and fetch requests.
C11_PollingNeverStops ==
  /\ []((mounted /\ autoSync /\ ~loading /\ ~RenderPending)
          => (syncIntervalRef # NoTimer \/ CyclesInFlight > 0))
  /\ []<><<TimerFire>>_vars

\* the loop goes on in the fallback range after three failures in a row
C11_Witness ==
  /\ mounted /\ autoSync /\ ~loading /\ ~RenderPending
  /\ consecutiveErrors >= FallbackErrors
  /\ syncIntervalRef # NoTimer /\ syncIntervalRef.period = FALLBACK_INTERVAL
  /\ \E op \in BagToSet(ops) : op.origin = "timer"

\* C12: a fetch started by a live notification does not reset the schedule of
\* the auto-sync timer: once React has rendered after that fetch, a timer of
\* the same period is due at the time it was due when the fetch completed.
C12_LiveFetchKeepsSchedule ==
  (mounted /\ ~RenderPending /\ liveDue # NoDue /\ syncIntervalRef # NoTimer
     /\ syncIntervalRef.period = liveDue.period)
    => syncIntervalRef.remaining = liveDue.remaining

\* the hook holds a SensorData object
Holding == sensorData.path # "null"

\* C13: the held SensorData is replaced as a whole: its currentValues and
\* its chartData come from the same fetch.
C13_ReplacedAsAWhole == Holding => sensorData.cvFrom = sensorData.chartFrom

\* a later fetch has replaced the object of an earlier one
C13_Witness == Holding /\ sensorData.chartFrom > 1 /\ sensorData.cvFrom > 1

PointInRange(t, h, sd, lp) ==
  /\ 15 <= t /\ t <= 30
  /\ 35 <= h /\ h <= 85
  /\ 0 <= sd /\ sd <= 60
  /\ 0 <= lp /\ lp <= 40

\* C14: every reading held, in chartData and in currentValues, has
\* 15 <= temperature <= 30, 35 <= humidity <= 85, 0 <= smallDust <= 60 and
\* 0 <= largeParticles <= 40.
C14_HeldReadingsInRange ==
  Holding =>
    /\ \A i \in 1..Len(sensorData.chartData) :
         LET p == sensorData.chartData[i]
         IN PointInRange(p.temperature, p.humidity, p.smallDust, p.largeParticles)
    /\ LET c == sensorData.currentValues
       IN PointInRange(c.temperature, c.humidity, c.smallDustParticles, c.largeParticles)

\* C15: once a fetch has completed the hook holds a SensorData object with a
\* non-empty history and a currentValues reading, for every window.
C15_AlwaysSomeReading ==
  (fetchNo > 0 /\ response = NoResponse)
    => /\ Holding
       /\ Len(sensorData.chartData) > 0
       /\ DOMAIN sensorData.currentValues =
            {"temperature", "humidity", "smallDustParticles", "largeParticles"}

SyntheticPaths == {"generator", "catch", "hookMock"}

\* C16: data that comes from the generator fallback of the route, from its
\* catch branch or from the mock fallback of the hook is tagged isMockData and
\* has as many readings as the window has hours.
C16_FallbackHasRequestedLength ==
  (Holding /\ sensorData.path \in SyntheticPaths)
    => (sensorData.isMockData /\ Len(sensorData.chartData) = hours)

\* C17: isMockData is true only if the readings were produced by a generator:
\* readings of the store, returned while the remote source gave no feeds, are
\* not tagged as mock data.
C17_MockOnlyIfGenerated ==
  (Holding /\ sensorData.isMockData) => sensorData.path \in SyntheticPaths

\* C18: chartData is ordered from the oldest to the newest timestamp on every
\* source path.
C18_HistoryOldestFirst ==
  Holding =>
    \A i \in 1..(Len(sensorData.chartData) - 1) :
      sensorData.chartData[i].timestamp <= sensorData.chartData[i + 1].timestamp

\* the entry of a non-empty history with the greatest timestamp
Newest(chartData) ==
  CHOOSE p \in {chartData[i] : i \in 1..Len(chartData)} :
    \A i \in 1..Len(chartData) : chartData[i].timestamp <= p.timestamp

\* C19: currentValues is the most recent reading of the held state: its four
\* measurements are those of the history entry with the greatest timestamp.
C19_CurrentValuesAreNewest ==
  (Holding /\ Len(sensorData.chartData) > 0)
    => LET p == Newest(sensorData.chartData)
           c == sensorData.currentValues
       IN /\ c.temperature = p.temperature
          /\ c.humidity = p.humidity
          /\ c.smallDustParticles = p.smallDust
          /\ c.largeParticles = p.largeParticles

\* C20: a subscription is created only with enableRealtime true, the initial
\* load finished and the provenance not synthetic at the moment of creation,
\* and not earlier than 5 seconds after these conditions began to hold; with
\* enableRealtime false no subscription is ever created.
C20_SubscriptionOnlyWhenEligible ==
  /\ [](~enableRealtime => \A k \in 1..MaxSubs : subs[k].status = "none")
  /\ [][\A op \in BagToSet(ops) :
          (op.pc = "table" /\ TableResponds(op, "ok"))
            => (enableRealtime /\ ~loading /\ ~isUsingMockData /\ eligible = 1)]_vars

\* subscription k is open: created and not unsubscribed
Open(k) == subs[k].status \in {"pending", "subscribed"}

\* C21: a subscription attempt whose 10 second timeout comes before it was
\* confirmed SUBSCRIBED, or that reports CHANNEL_ERROR, is closed by that
\* step and realtimeEnabled is false afterwards; realtimeEnabled is true
\* only while a confirmed subscription is open.
C21_UnconfirmedIsClosed ==
  /\ []((mounted /\ realtimeEnabled)
          => \E k \in 1..MaxSubs : subs[k].status = "subscribed")
  /\ [][\A k \in 1..MaxSubs :
          (subs[k].status = "pending" /\ SubscriptionTimeout(k))
            => (subs'[k].status = "closed" /\ (mounted => ~realtimeEnabled'))]_vars
  /\ [][\A k \in 1..MaxSubs :
          SubscribeStatus(k, "CHANNEL_ERROR")
            => (subs'[k].status = "closed" /\ (mounted => ~realtimeEnabled'))]_vars

\* the sync and fetch operations in flight, without the setup calls
PollingOps(b) ==
  LET S == {r \in BagToSet(b) : r.pc \in {"sync", "fetch"}}
  IN [r \in S |-> CopiesIn(r, b)]

\* a step in which the live subscription fails, times out or is torn down
SubscriptionFailure ==
  \/ \E op \in BagToSet(ops), out \in {"testError", "throws"} : TableResponds(op, out)
  \/ \E k \in 1..MaxSubs : SubscribeStatus(k, "CHANNEL_ERROR")
  \/ \E k \in 1..MaxSubs : SubscriptionTimeout(k)

\* C22: a failure, timeout or teardown of the live subscription changes
\* nothing of the polling state: data, provenance, lastSync, syncInterval,
\* consecutiveErrors and the armed timer are unchanged, no effect is made to
\* run again, and the cycles in flight go on as before.
C22_FailureLeavesPolling ==
  [][SubscriptionFailure
       => /\ UNCHANGED <<ReactState, syncIntervalRef, dirtySync>>
          /\ PollingOps(ops') = PollingOps(ops)]_vars

\* a subscription was torn down while the timer of the polling loop is armed
C22_Witness ==
  /\ mounted /\ syncIntervalRef # NoTimer /\ ~realtimeEnabled
  /\ subscriptionRef = NoSubscription
  /\ \E k \in 1..MaxSubs : subs[k].status = "closed"

\* C29: at most one live subscription is open at any time and none is
\* leaked: every subscription that was created is the one referenced by
\* subscriptionRef or has been unsubscribed.
C29_OneSubscriptionNoLeak ==
  \A k \in 1..MaxSubs : Open(k) => subscriptionRef = k

\* C30: the 10 second timeout of an attempt that was torn down closes no
\* other attempt: a later attempt is closed by a timeout only when its own
\* 10 seconds have passed.
C30_TimeoutClosesOwnAttempt ==
  [][\A k \in 1..MaxSubs :
       (subs[k].status = "closed" /\ SubscriptionTimeout(k))
         => \A j \in 1..MaxSubs \ {k} : subs'[j].status = subs[j].status]_vars

\* C23: the hook constructed with an invalid window (zero or negative hours)
\* is rejected at once: no fetch is issued, no timer is armed and no state is
\* written.
C23_InvalidWindowRejected ==
  hours <= 0
    => /\ InFlight = 0
       /\ syncIntervalRef = NoTimer
       /\ data = "none" /\ lastSync = NoSync /\ consecutiveErrors = 0
       /\ ~isUsingMockData

\* C24: a fetch answered HTTP OK with isMockData true (with success true or
\* false) is not counted as an error: it sets consecutiveErrors to 0, the
\* provenance to synthetic and lastSync to now; consecutiveErrors grows only
\* in a step in which the sync request or the fetch request of the hook failed.
C24_FallbackOfFetcherIsNoError ==
  /\ [][\A op \in BagToSet(ops) :
          (mounted /\ op.pc = "fetch" /\ FetchResponds(op, "mock"))
            => (consecutiveErrors' = 0 /\ isUsingMockData' /\ lastSync' = 0)]_vars
  /\ [][consecutiveErrors' > consecutiveErrors
          => \E op \in BagToSet(ops) :
               \/ \E out \in SyncOutcomes \ {"ok"} : SyncResponds(op, out)
               \/ \E out \in FetchFails : FetchResponds(op, out)]_vars

\* a cycle that began with errors counted ended with a mock response
C24_Witness ==
  /\ mounted /\ last.origin # "none" /\ last.fetchOut = "mock" /\ last.e0 > 0
  /\ consecutiveErrors = 0 /\ isUsingMockData /\ lastSync = 0

\* C25: for every N >= 1, generateHistoricalData(N) returns exactly N
\* readings with strictly increasing timestamps, one per hour from N - 1
\* hours ago to now, each with temperature, humidity, smallDustParticles and
\* largeParticles present.
C25_HistoricalDataShape ==
  (generated.call = "generateHistoricalData" /\ generated.returned /\ generated.hours >= 1)
    => LET r == generated.readings
           n == generated.hours
       IN /\ Len(r) = n
          /\ \A i \in 1..(n - 1) : r[i].timestamp < r[i + 1].timestamp
          /\ \A i \in 1..n : r[i].timestamp = Now - (n - i)
          /\ r[n].timestamp = Now
          /\ \A i \in 1..n :
               {"temperature", "humidity", "smallDustParticles", "largeParticles"}
                 \subseteq DOMAIN r[i]

\* a history of a whole day was returned
C25_Witness ==
  /\ generated.call = "generateHistoricalData" /\ generated.returned
  /\ generated.hours = 24 /\ Len(generated.readings) = 24

\* the score the quality bands are defined on: 100 minus the penalties
PenaltyScore(t, h, d) ==
  100 - (IF t < 18 \/ t > 24 THEN 20 ELSE 0) - (IF t < 15 \/ t > 28 THEN 30 ELSE 0)
      - (IF h < 50 \/ h > 65 THEN 15 ELSE 0) - (IF h < 40 \/ h > 75 THEN 25 ELSE 0)
      - (IF d > 20 THEN 15 ELSE 0) - (IF d > 35 THEN 25 ELSE 0)
      - (IF d > 50 THEN 40 ELSE 0)

Band(score) ==
  IF score >= 85 THEN "excellent" ELSE IF score >= 70 THEN "good"
  ELSE IF score >= 50 THEN "moderate" ELSE IF score >= 30 THEN "poor" ELSE "hazardous"

Rank(q) ==
  CASE q = "excellent" -> 4 [] q = "good" -> 3 [] q = "moderate" -> 2
    [] q = "poor" -> 1 [] q = "hazardous" -> 0

\* y is at least as far from the band lo..hi as x is, on the same side
Farther(y, x, lo, hi) ==
  \/ x >= lo /\ x <= hi
  \/ x < lo /\ y <= x
  \/ x > hi /\ y >= x

\* C26: the quality class is the band of the score 100 minus the cumulative
\* penalties; (24, 65, 20) is at least good and (31, 80, 55) is hazardous;
\* moving one field further from its optimal band gives no better class.
C26_QualityIsBandOfScore ==
  (generated.call = "determineQuality" /\ generated.returned)
    => LET t == generated.temp
           h == generated.humidity
           d == generated.smallDust
           q == generated.quality
       IN /\ q = Band(PenaltyScore(t, h, d))
          /\ (t = 24 /\ h = 65 /\ d = 20) => Rank(q) >= Rank("good")
          /\ (t = 31 /\ h = 80 /\ d = 55) => q = "hazardous"
          /\ \A t2 \in QualityTemperatures :
               Farther(t2, t, 18, 24) => Rank(determineQuality(t2, h, d)) <= Rank(q)
          /\ \A h2 \in QualityHumidities :
               Farther(h2, h, 50, 65) => Rank(determineQuality(t, h2, d)) <= Rank(q)
          /\ \A d2 \in QualityDusts :
               d2 >= d => Rank(determineQuality(t, h, d2)) <= Rank(q)

\* the two readings of the scenario were classified
C26_Witness ==
  /\ generated.call = "determineQuality" /\ generated.returned
  /\ \/ generated.temp = 24 /\ generated.humidity = 65 /\ generated.smallDust = 20
          /\ generated.quality = "excellent"
     \/ generated.temp = 31 /\ generated.humidity = 80 /\ generated.smallDust = 55
          /\ generated.quality = "hazardous"

\* C27: every scheduled cycle runs its fetch after the sync trigger whatever the
\* trigger's outcome (success, success = false, a thrown error), and no timer
\* is armed before the initial fetch has completed.
C27_FetchInEveryCycle ==
  /\ [](loading => syncIntervalRef = NoTimer)
  /\ [][\A op \in BagToSet(ops), out \in SyncOutcomes :
          (op.origin = "timer" /\ op.pc = "sync" /\ SyncResponds(op, out))
            => \E q \in BagToSet(ops') :
                 /\ q.pc = "fetch" /\ q.origin = op.origin
                 /\ CopiesIn(q, ops') > CopiesIn(q, ops)]_vars

\* C28: when two fetches overlap, the response of the one that started
\* earlier does not overwrite what the one that started later wrote: the
\* initial fetch, answered after the fetch of a cycle has completed, leaves
\* data, provenance, lastSync and consecutiveErrors as that fetch wrote them.
C28_EarlierFetchDoesNotOverwrite ==
  [][\A op \in BagToSet(ops) :
       (/\ mounted
        /\ op.origin = "initial"
        /\ last.origin # "none" /\ last.fetchOut # "none"
        /\ \E out \in FetchOutcomes : FetchResponds(op, out))
         => UNCHANGED <<data, isUsingMockData, lastSync, consecutiveErrors>>]_vars

====
